---------------------------- MODULE Spec2Model ----------------------------
(***************************************************************************)
(* Model of src/main.py: the cost-of-living table COLI_DATA,                *)
(* get_coli_by_zip, calculate_labor_hours and calculate_quote, and the     *)
(* service built on them: create_quote with save_quote_to_db and the       *)
(* background task send_quote_email, and get_quotes.                       *)
(*                                                                         *)
(* Three specifications share the definitions: Spec runs one call of a     *)
(* pure function on a wide range of inputs, SpecCalls runs a sequence of   *)
(* calls in one process, SpecService runs the HTTP handlers against the    *)
(* quotes table and the mail API.                                          *)
(*                                                                         *)
(* Strings are sequences of one-character strings, so that split('-') and  *)
(* the slices [:5], [:3], [:2] are computed on the characters.             *)
(*                                                                         *)
(* Python floats are fixed-point integers here.  Hours are kept in         *)
(* ten-thousandths while they are summed (the smallest weight is 0.0003)   *)
(* and in hundredths once round(x, 2) has been applied; money is kept in   *)
(* cents once rounded.  A value that lies exactly halfway between two      *)
(* hundredths is rounded by Python according to the binary representation  *)
(* error of the float.  Where that error is known (RateError, ProductUp)   *)
(* the model computes the direction; elsewhere round(x, 2) of such a value *)
(* may go either way, and the direction is an input (tie).                 *)
(***************************************************************************)
EXTENDS Integers, Sequences, FiniteSets, TLC

VARIABLES
    op,          \* which function this run calls
    pc,          \* "call" before the function runs, "return" / "raise" after
    zip_code,    \* argument of get_coli_by_zip
    zip_5,       \* local zip_5 of get_coli_by_zip once it has run
    coli,        \* value returned by get_coli_by_zip
    request,     \* argument of calculate_quote (a QuoteRequest)
    breakdown,   \* QuoteBreakdown returned by calculate_quote
    coli_assigned,  \* items assigned into the global COLI_DATA since import
    calls,       \* the calls completed so far by the process, with results
    fp,          \* rounding directions the float arithmetic has shown so far
    running,     \* the invocations of calculate_quote that run side by side:
                 \* the locals and the position of each
    supabase,    \* the module global: "client", or "None" when create_client
                 \* raised
    BREVO_API_KEY,  \* the module global: "" when the variable is not set
    quotes,      \* rows of the table "quotes", in insertion order
    handled,     \* number of POST /api/quote requests handled
    background_tasks,  \* send_quote_email tasks added and not yet run
    response,    \* what create_quote answered, when it is the last step
    sent,        \* what send_quote_email did, when it is the last step
    listing      \* what get_quotes answered, when it is the last step

callvars == <<op, pc, zip_code, zip_5, coli, request, breakdown>>

svcvars ==
    <<supabase, BREVO_API_KEY, quotes, handled, background_tasks, response,
      sent, listing>>

vars == <<callvars, coli_assigned, calls, fp, running, svcvars>>

-----------------------------------------------------------------------------
(* Bounds of the checked inputs *)

\* longest postal-code string enumerated character by character
MaxZipLen == 6
\* beds and bedrooms range over 0..MaxBeds
MaxBeds == 2
\* full_bathrooms, half_bathrooms, living_rooms and kitchens: 0..MaxRooms
MaxRooms == 1
\* extra_spaces and exterior_features range over 0..MaxExtras
MaxExtras == 1
\* carpet_area and hard_floors_area (square feet) range over
\* 0, AreaStep, .., MaxAreaSteps * AreaStep
MaxAreaSteps == 1
AreaStep == 1250

-----------------------------------------------------------------------------
(* Strings *)

Digit == <<"0", "1", "2", "3", "4", "5", "6", "7", "8", "9">>

\* the five characters of a five-digit table key written as a number
Key5(n) ==
    << Digit[((n \div 10000) % 10) + 1], Digit[((n \div 1000) % 10) + 1],
       Digit[((n \div 100) % 10) + 1], Digit[((n \div 10) % 10) + 1],
       Digit[(n % 10) + 1] >>

Min(a, b) == IF a <= b THEN a ELSE b
Max(a, b) == IF a >= b THEN a ELSE b

\* Python s[:n]
Slice(s, n) == SubSeq(s, 1, Min(n, Len(s)))

\* Python s.split('-')[0]: the characters before the first hyphen
SplitFirst(s) ==
    LET hy == {i \in 1..Len(s) : s[i] = "-"}
    IN  IF hy = {} THEN s
        ELSE SubSeq(s, 1, (CHOOSE i \in hy : \A j \in hy : i <= j) - 1)

\* a Python dict literal: for a key written more than once the last value stays
DictOf(items) ==
    [k \in {items[i][1] : i \in DOMAIN items} |->
        LET at == {i \in DOMAIN items : items[i][1] = k}
        IN  items[CHOOSE i \in at : \A j \in at : j <= i][2]]

-----------------------------------------------------------------------------
(* COLI_DATA, in the order of the source *)

COLI_ZIPS == <<
    \* WASHINGTON DC (High COLI - 125-135)
    <<20001, 132>>, <<20002, 128>>, <<20003, 135>>, <<20004, 138>>, <<20005, 140>>,
    <<20006, 142>>, <<20007, 145>>, <<20008, 148>>, <<20009, 135>>, <<20010, 130>>,
    <<20011, 125>>, <<20012, 128>>, <<20015, 145>>, <<20016, 150>>, <<20017, 128>>,
    <<20018, 125>>, <<20019, 122>>, <<20020, 118>>, <<20024, 138>>, <<20032, 120>>,
    <<20036, 145>>, <<20037, 148>>, <<20052, 140>>, <<20057, 142>>, <<20064, 135>>,
    <<20071, 140>>, <<20090, 138>>, <<20204, 140>>, <<20500, 145>>,
    \* MARYLAND
    \* Baltimore Metro Area (Moderate-High COLI - 108-125)
    <<21201, 115>>, <<21202, 118>>, <<21205, 110>>, <<21206, 108>>, <<21207, 105>>,
    <<21208, 120>>, <<21209, 125>>, <<21210, 118>>, <<21211, 108>>, <<21212, 115>>,
    <<21213, 105>>, <<21214, 108>>, <<21215, 105>>, <<21216, 102>>, <<21217, 100>>,
    <<21218, 112>>, <<21219, 108>>, <<21220, 110>>, <<21221, 108>>, <<21222, 110>>,
    <<21224, 112>>, <<21225, 105>>, <<21227, 108>>, <<21228, 112>>, <<21229, 110>>,
    <<21230, 115>>, <<21231, 118>>, <<21234, 108>>, <<21235, 105>>, <<21236, 110>>,
    <<21237, 105>>, <<21239, 110>>, <<21244, 115>>, <<21250, 112>>, <<21286, 115>>,
    \* Montgomery County, MD (High COLI - 125-145)
    <<20812, 140>>, <<20814, 145>>, <<20815, 148>>, <<20816, 142>>, <<20817, 140>>,
    <<20818, 138>>, <<20832, 135>>, <<20833, 138>>, <<20837, 140>>, <<20838, 142>>,
    <<20841, 135>>, <<20842, 138>>, <<20850, 132>>, <<20851, 130>>, <<20852, 135>>,
    <<20853, 138>>, <<20854, 135>>, <<20855, 132>>, <<20871, 128>>, <<20872, 130>>,
    <<20874, 132>>, <<20876, 130>>, <<20877, 128>>, <<20878, 130>>, <<20879, 132>>,
    <<20880, 135>>, <<20882, 138>>, <<20886, 130>>, <<20895, 128>>, <<20896, 135>>,
    <<20901, 125>>, <<20902, 128>>, <<20903, 125>>, <<20904, 122>>, <<20905, 125>>,
    <<20906, 128>>, <<20910, 130>>, <<20912, 125>>,
    \* Prince George's County, MD (Moderate COLI - 110-125)
    <<20705, 115>>, <<20706, 118>>, <<20707, 115>>, <<20708, 112>>, <<20710, 115>>,
    <<20712, 112>>, <<20715, 118>>, <<20716, 115>>, <<20717, 112>>, <<20720, 115>>,
    <<20721, 118>>, <<20722, 115>>, <<20724, 112>>, <<20737, 118>>, <<20740, 120>>,
    <<20743, 115>>, <<20744, 112>>, <<20745, 118>>, <<20746, 115>>, <<20747, 112>>,
    <<20748, 115>>, <<20770, 122>>, <<20774, 118>>, <<20782, 115>>, <<20783, 112>>,
    <<20785, 118>>, <<20787, 120>>, <<20788, 115>>, <<20794, 112>>,
    \* Anne Arundel County, MD (Moderate-High COLI - 115-130)
    <<21037, 125>>, <<21054, 122>>, <<21060, 125>>, <<21061, 128>>, <<21076, 120>>,
    <<21090, 118>>, <<21108, 115>>, <<21113, 118>>, <<21114, 120>>, <<21122, 118>>,
    <<21140, 125>>, <<21144, 120>>, <<21146, 122>>, <<21401, 128>>, <<21403, 125>>,
    <<21405, 130>>, <<21409, 125>>, <<21412, 122>>,
    \* Frederick County, MD (Moderate COLI - 108-118)
    <<21701, 115>>, <<21702, 112>>, <<21703, 115>>, <<21704, 118>>, <<21705, 115>>,
    <<21710, 110>>, <<21716, 108>>, <<21718, 110>>, <<21740, 108>>, <<21787, 110>>,
    \* VIRGINIA
    \* Northern Virginia / DC Metro (High COLI - 125-145)
    <<22003, 140>>, <<22015, 135>>, <<22030, 138>>, <<22031, 140>>, <<22032, 135>>,
    <<22041, 135>>, <<22042, 138>>, <<22043, 140>>, <<22044, 135>>, <<22046, 142>>,
    <<22060, 132>>, <<22066, 130>>, <<22101, 140>>, <<22102, 145>>, <<22124, 138>>,
    <<22150, 130>>, <<22151, 128>>, <<22152, 130>>, <<22153, 125>>, <<22180, 142>>,
    <<22181, 145>>, <<22182, 148>>, <<22183, 140>>, <<22201, 138>>, <<22202, 135>>,
    <<22203, 140>>, <<22204, 135>>, <<22205, 142>>, <<22206, 130>>, <<22207, 145>>,
    <<22213, 132>>, <<22301, 135>>, <<22302, 138>>, <<22304, 130>>, <<22305, 132>>,
    <<22314, 140>>, <<22315, 138>>,
    \* Fairfax County, VA (High COLI - 130-145)
    <<20120, 135>>, <<20121, 138>>, <<20124, 135>>, <<20151, 140>>, <<20152, 135>>,
    <<20170, 132>>, <<20171, 135>>, <<20175, 130>>, <<20190, 132>>, <<20191, 135>>,
    <<20194, 138>>, <<22003, 140>>, <<22009, 138>>, <<22015, 135>>, <<22027, 142>>,
    <<22030, 138>>, <<22031, 140>>, <<22032, 135>>, <<22033, 138>>, <<22035, 135>>,
    <<22039, 140>>, <<22042, 138>>, <<22043, 140>>, <<22060, 132>>, <<22066, 130>>,
    <<22079, 145>>, <<22081, 140>>, <<22092, 142>>, <<22095, 138>>,
    \* Richmond Metro Area (Moderate COLI - 105-118)
    <<23173, 110>>, <<23223, 108>>, <<23224, 105>>, <<23225, 108>>, <<23226, 115>>,
    <<23227, 105>>, <<23230, 118>>, <<23233, 112>>, <<23235, 115>>, <<23236, 112>>,
    <<23294, 110>>, <<23059, 108>>, <<23060, 110>>, <<23061, 112>>, <<23113, 105>>,
    <<23114, 108>>, <<23120, 105>>, <<23229, 110>>, <<23238, 115>>, <<23832, 105>>,
    <<23834, 108>>, <<23838, 105>>,
    \* Virginia Beach/Norfolk Area (Moderate COLI - 105-115)
    <<23451, 115>>, <<23452, 112>>, <<23453, 110>>, <<23454, 112>>, <<23455, 108>>,
    <<23456, 110>>, <<23457, 115>>, <<23462, 112>>, <<23464, 108>>, <<23502, 108>>,
    <<23503, 105>>, <<23504, 108>>, <<23505, 110>>, <<23507, 105>>, <<23508, 108>>,
    <<23509, 110>>, <<23510, 105>>, <<23511, 108>>, <<23513, 105>>, <<23518, 108>>,
    <<23551, 105>>, <<23601, 108>>, <<23602, 105>>, <<23603, 108>>, <<23604, 110>>,
    <<23606, 108>>, <<23608, 105>>, <<23669, 108>>,
    \* Charlottesville Area (Moderate COLI - 108-115)
    <<22901, 115>>, <<22902, 112>>, <<22903, 115>>, <<22904, 110>>, <<22911, 108>>,
    <<22936, 110>>, <<22940, 108>>, <<22980, 110>>,
    \* Roanoke Area (Lower-Moderate COLI - 98-108)
    <<24012, 105>>, <<24013, 102>>, <<24014, 105>>, <<24015, 108>>, <<24016, 105>>,
    <<24017, 102>>, <<24018, 100>>, <<24019, 98>>, <<24153, 100>>, <<24179, 102>>,
    <<24201, 100>>, <<24210, 98>>, <<24234, 100>>,
    \* MINNESOTA
    \* Twin Cities Metro (Minneapolis-St. Paul) (Moderate-High COLI - 108-125)
    \* Minneapolis
    <<55401, 120>>, <<55402, 118>>, <<55403, 115>>, <<55404, 112>>, <<55405, 108>>,
    <<55406, 110>>, <<55407, 108>>, <<55408, 105>>, <<55409, 108>>, <<55410, 112>>,
    <<55411, 105>>, <<55412, 108>>, <<55413, 110>>, <<55414, 115>>, <<55415, 118>>,
    <<55416, 122>>, <<55417, 115>>, <<55418, 110>>, <<55419, 112>>, <<55420, 115>>,
    <<55421, 108>>, <<55422, 110>>, <<55423, 105>>, <<55424, 112>>, <<55425, 115>>,
    <<55426, 118>>, <<55427, 110>>, <<55428, 108>>, <<55429, 105>>, <<55430, 108>>,
    <<55431, 110>>, <<55432, 105>>, <<55433, 108>>, <<55434, 110>>, <<55435, 112>>,
    <<55436, 115>>, <<55437, 112>>, <<55438, 108>>, <<55439, 110>>, <<55441, 112>>,
    <<55443, 108>>, <<55444, 105>>, <<55445, 108>>, <<55446, 110>>, <<55447, 105>>,
    <<55448, 108>>,
    \* St. Paul
    <<55101, 115>>, <<55102, 118>>, <<55103, 112>>, <<55104, 115>>, <<55105, 118>>,
    <<55106, 108>>, <<55107, 105>>, <<55108, 108>>, <<55109, 110>>, <<55110, 112>>,
    <<55112, 108>>, <<55113, 110>>, <<55116, 115>>, <<55117, 110>>, <<55118, 108>>,
    <<55119, 105>>, <<55120, 108>>, <<55123, 110>>, <<55124, 112>>, <<55125, 110>>,
    <<55126, 108>>, <<55127, 105>>, <<55128, 108>>, <<55129, 110>>, <<55130, 105>>,
    <<55133, 108>>, <<55144, 110>>, <<55155, 108>>, <<55161, 110>>, <<55164, 105>>,
    <<55165, 108>>, <<55166, 110>>, <<55167, 108>>, <<55168, 105>>, <<55169, 108>>,
    <<55172, 110>>, <<55175, 108>>, <<55176, 105>>, <<55177, 108>>, <<55182, 110>>,
    <<55187, 108>>, <<55188, 105>>, <<55191, 108>>,
    \* Western Metro Suburbs (Higher COLI - 115-125)
    <<55305, 122>>, <<55317, 118>>, <<55318, 115>>, <<55322, 120>>, <<55331, 118>>,
    <<55337, 115>>, <<55343, 125>>, <<55345, 122>>, <<55347, 118>>, <<55356, 120>>,
    <<55357, 118>>, <<55359, 115>>, <<55361, 118>>, <<55364, 115>>, <<55391, 120>>,
    <<55441, 115>>, <<55442, 118>>,
    \* Eastern Metro Suburbs (Moderate COLI - 110-118)
    <<55014, 115>>, <<55042, 112>>, <<55055, 115>>, <<55071, 112>>, <<55082, 118>>,
    <<55090, 115>>, <<55092, 112>>, <<55115, 110>>, <<55121, 115>>, <<55122, 118>>,
    <<55150, 112>>, <<55306, 115>>, <<55340, 112>>, <<55372, 115>>, <<55378, 112>>,
    <<55379, 115>>, <<55381, 112>>, <<55382, 115>>, <<55386, 112>>, <<55387, 115>>,
    <<55388, 112>>, <<55390, 115>>,
    \* Duluth Area (Lower-Moderate COLI - 100-108)
    <<55802, 105>>, <<55803, 108>>, <<55804, 105>>, <<55805, 102>>, <<55806, 105>>,
    <<55807, 108>>, <<55808, 105>>, <<55810, 102>>, <<55811, 105>>, <<55812, 100>>,
    \* Rochester Area (Moderate COLI - 105-112)
    <<55901, 110>>, <<55902, 108>>, <<55904, 112>>, <<55905, 110>>, <<55906, 108>>,
    <<55909, 105>>,
    \* St. Cloud Area (Lower-Moderate COLI - 98-105)
    <<56301, 105>>, <<56303, 102>>, <<56304, 100>>, <<56321, 98>>, <<56374, 100>>,
    \* Mankato Area (Lower-Moderate COLI - 98-105)
    <<56001, 102>>, <<56002, 100>>, <<56003, 105>>, <<56006, 98>>, <<56019, 100>>
>>

DEFAULT_KEY == <<"d", "e", "f", "a", "u", "l", "t">>

\* the (key, value) items of the literal, the "default" item last
COLI_ITEMS ==
    [i \in 1..Len(COLI_ZIPS) |-> <<Key5(COLI_ZIPS[i][1]), COLI_ZIPS[i][2]>>]
        \o << <<DEFAULT_KEY, 115>> >>

COLI_DATA == DictOf(COLI_ITEMS)

state_averages ==
    DictOf(<<
        \* Washington DC (200xx)
        << <<"2", "0">>, 135 >>,
        \* Maryland (206xx-212xx)
        << <<"2", "1">>, 115 >>,
        << <<"2", "0", "7">>, 118 >>,
        << <<"2", "0", "8">>, 125 >>,
        << <<"2", "0", "9">>, 130 >>,
        \* Virginia (220xx-246xx)
        << <<"2", "2">>, 130 >>,
        << <<"2", "3">>, 110 >>,
        << <<"2", "4">>, 102 >>,
        << <<"2", "3", "2">>, 108 >>,
        << <<"2", "3", "4">>, 110 >>,
        << <<"2", "2", "9">>, 115 >>,
        \* Minnesota (550xx-567xx)
        << <<"5", "5">>, 110 >>,
        << <<"5", "5", "6">>, 100 >>,
        << <<"5", "5", "7">>, 98 >>,
        << <<"5", "5", "0">>, 115 >>,
        << <<"5", "5", "1">>, 112 >>
    >>)

-----------------------------------------------------------------------------
(* get_coli_by_zip *)

\* the slice without the split
Normalize_NoSplit(zip) == Slice(zip, 5)

\* zip_5 = zip_code.split('-')[0][:5]
Normalize(zip) == Slice(SplitFirst(zip), 5)

\* d[k] of a dict: the value, or KeyError
Subscript(d, k) ==
    IF k \in DOMAIN d THEN [exc |-> "none", value |-> d[k]]
    ELSE [exc |-> "KeyError", value |-> 0]

\* the contents of the global COLI_DATA now: the literal, and over it
\* whatever has been assigned into the dict since
COLI_NOW ==
    IF DOMAIN coli_assigned = {} THEN COLI_DATA
    ELSE coli_assigned @@ COLI_DATA

\* the 2-character prefix tried before the 3-character prefix
get_coli_by_zip_TwoFirst(zip) ==
    LET z5 == Normalize(zip)
        zip_prefix_2 == Slice(z5, 2)
        zip_prefix_3 == Slice(z5, 3)
    IN  IF z5 \in DOMAIN COLI_NOW THEN Subscript(COLI_NOW, z5)
        ELSE IF zip_prefix_2 \in DOMAIN state_averages
            THEN Subscript(state_averages, zip_prefix_2)
        ELSE IF zip_prefix_3 \in DOMAIN state_averages
            THEN Subscript(state_averages, zip_prefix_3)
        ELSE Subscript(COLI_NOW, DEFAULT_KEY)

\* the final fallback subscripted with the code instead of "default"
get_coli_by_zip_NoDefault(zip) ==
    LET z5 == Normalize(zip)
        zip_prefix_2 == Slice(z5, 2)
        zip_prefix_3 == Slice(z5, 3)
    IN  IF z5 \in DOMAIN COLI_NOW THEN Subscript(COLI_NOW, z5)
        ELSE IF zip_prefix_3 \in DOMAIN state_averages
            THEN Subscript(state_averages, zip_prefix_3)
        ELSE IF zip_prefix_2 \in DOMAIN state_averages
            THEN Subscript(state_averages, zip_prefix_2)
        ELSE Subscript(COLI_NOW, z5)

get_coli_by_zip(zip) ==
    LET z5 == Normalize(zip)
        zip_prefix_2 == Slice(z5, 2)
        zip_prefix_3 == Slice(z5, 3)
    IN  IF z5 \in DOMAIN COLI_NOW THEN Subscript(COLI_NOW, z5)
        ELSE IF zip_prefix_3 \in DOMAIN state_averages
            THEN Subscript(state_averages, zip_prefix_3)
        ELSE IF zip_prefix_2 \in DOMAIN state_averages
            THEN Subscript(state_averages, zip_prefix_2)
        ELSE Subscript(COLI_NOW, DEFAULT_KEY)

-----------------------------------------------------------------------------
(* Arithmetic *)

\* round(num / den) to the nearest integer; an exact half goes up iff up
Round(num, den, up) ==
    LET q == num \div den
        r == num % den
    IN  IF 2 * r < den THEN q
        ELSE IF 2 * r > den THEN q + 1
        ELSE IF up THEN q + 1 ELSE q

\* the quotient truncated instead of raised
Ceil_Truncating(num, den) == num \div den

\* math.ceil(num / den)
Ceil(num, den) == (num + den - 1) \div den

\* the directions taken by the roundings of one call at an exact half
Ties == [hours : BOOLEAN, time : BOOLEAN, raw : BOOLEAN,
         profit : BOOLEAN, final : BOOLEAN]

RECURSIVE Pow2(_)
Pow2(k) == IF k = 0 THEN 1 ELSE 2 * Pow2(k - 1)

RECURSIVE Pow2Mod100(_)
Pow2Mod100(k) == IF k = 0 THEN 1 ELSE (2 * Pow2Mod100(k - 1)) % 100

\* round-half-to-even takes an exact half num / den up iff the floor is odd
HalfEvenUp(num, den) == (num \div den) % 2 = 1

(* The sign of a - c / 4 for the float a = 25.0 * (c / 100), 64 <= c < 200.  *)
(* c / 100 is the float M * 2^-52 (c >= 100) with 100 M = c * 2^52 - r for    *)
(* the remainder r of least magnitude, so 25 M = c * 2^50 - r / 4.  For       *)
(* 100 <= c < 128 the product keeps the multiples of 16 only and moves off   *)
(* c / 4 by one unit when |r / 4| > 8; outside that range it keeps c / 4.    *)
RateError(c) ==
    LET r == (c * Pow2Mod100(52)) % 100
        rs == IF r <= 50 THEN r ELSE r - 100
    IN  IF c < 100 \/ c >= 128 THEN 0
        ELSE IF rs > 32 THEN -1
        ELSE IF rs < -32 THEN 1
        ELSE 0

(* The direction round(x, 2) takes at an exact half of raw_cost or           *)
(* profit_amount.  When labor_hours is a multiple of 0.25 it is an exact     *)
(* float: the product with an exact rate is exact and Python rounds the half *)
(* to even, and the product with a rate one unit off lies on the side of the *)
(* rate's error.  Otherwise the direction is the input free.                 *)
ProductUp(labor_hours, c, num, den, free) ==
    IF labor_hours % 25 # 0 \/ c < 64 \/ c >= 200 THEN free
    ELSE IF RateError(c) = 0 THEN HalfEvenUp(num, den)
    ELSE RateError(c) > 0

\* the same for final_quote, a sum that is exact only if the rate is
SumUp(labor_hours, c, num, den, free) ==
    IF labor_hours % 25 # 0 \/ c < 64 \/ c >= 200 THEN free
    ELSE IF RateError(c) = 0 THEN HalfEvenUp(num, den)
    ELSE free

-----------------------------------------------------------------------------
(* Constants of calculate_quote.  Rates and fees are in dollars, the margin *)
(* in percent, the pet multiplier in tenths.                                *)

BASE_HOURLY_RATE == 25
PROFIT_MARGIN_PCT == 25
FLAT_FEE == 25
\* the cap doubled
MAX_HOURS_PER_CLEANER_Doubled == 2 * 4
MAX_HOURS_PER_CLEANER == 4
\* the 20% of the comment echoed instead of the factor applied
PET_MULTIPLIER_TwentyPercent == 10 + 2
PET_MULTIPLIER == 11

\* the 20% increase announced by the comment above the multiplication
PetFactor_TwentyPercent == 10 + 2
\* the factor written in calculate_labor_hours (hours *= 1.1), in tenths
PetFactor == 11

-----------------------------------------------------------------------------
(* calculate_labor_hours *)

\* the weights announced by the comments of the source: 0.75 h per full
\* bathroom, 0.5 h per living room, 1 h per kitchen, 0.25 h per extra
WeightedHours_CommentWeights(req) ==
    LET total_bedrooms == Max(req.beds, req.bedrooms)
    IN  total_bedrooms * 3000
        + req.full_bathrooms * 7500
        + req.half_bathrooms * 2500
        + req.living_rooms * 5000
        + req.kitchens * 10000
        + req.carpet_area * 3
        + req.hard_floors_area * 4
        + 5000
        + req.extra_spaces * 2500
        + req.exterior_features * 2500

\* the weighted sum counting the bedrooms field alone
WeightedHours_BedroomsOnly(req) ==
    req.bedrooms * 3000
        + req.full_bathrooms * 5000
        + req.half_bathrooms * 2500
        + req.living_rooms * 3000
        + req.kitchens * 6000
        + req.carpet_area * 3
        + req.hard_floors_area * 4
        + 5000
        + req.extra_spaces * 2000
        + req.exterior_features * 2000

\* the weighted sum without the laundry allowance
WeightedHours_NoLaundry(req) ==
    LET total_bedrooms == Max(req.beds, req.bedrooms)
    IN  total_bedrooms * 3000
        + req.full_bathrooms * 5000
        + req.half_bathrooms * 2500
        + req.living_rooms * 3000
        + req.kitchens * 6000
        + req.carpet_area * 3
        + req.hard_floors_area * 4
        + req.extra_spaces * 2000
        + req.exterior_features * 2000

\* hours before the pet multiplier, in ten-thousandths of an hour
WeightedHours(req) ==
    LET total_bedrooms == Max(req.beds, req.bedrooms)
    IN  total_bedrooms * 3000
        + req.full_bathrooms * 5000
        + req.half_bathrooms * 2500
        + req.living_rooms * 3000
        + req.kitchens * 6000
        + req.carpet_area * 3
        + req.hard_floors_area * 4
        + 5000
        + req.extra_spaces * 2000
        + req.exterior_features * 2000

\* the returned hours, in hundredths of an hour
calculate_labor_hours(req, up) ==
    IF req.pets_allowed
    THEN Round(WeightedHours(req) * PetFactor, 1000, up)
    ELSE Round(WeightedHours(req), 100, up)

-----------------------------------------------------------------------------
(* calculate_quote *)

(* A QuoteBreakdown.  labor_hours and estimated_actual_time are in          *)
(* hundredths of an hour; adjusted_hourly_rate, raw_cost,                   *)
(* profit_margin_amount and final_quote are in cents; the echoed constants  *)
(* are in the units of their definitions.                                   *)
\* float('inf') as the value of an area: the JSON number 1e999 is read as
\* inf and passes the ge=0 test of carpet_area and hard_floors_area
Infinity == 0 - 1

NoBreakdown ==
    [labor_hours |-> 0, required_cleaners |-> 0, estimated_actual_time |-> 0,
     base_hourly_rate |-> 0, coli_index |-> 0, adjusted_hourly_rate |-> 0,
     raw_cost |-> 0, profit_margin_percentage |-> 0,
     profit_margin_amount |-> 0, flat_fee |-> 0, final_quote |-> 0,
     max_hours_per_cleaner |-> 0, pet_multiplier_applied |-> FALSE,
     pet_multiplier_rate |-> 0]

calculate_quote(req, tie) ==
    LET labor_hours == calculate_labor_hours(req, tie.hours)
        pet_multiplier_applied == req.pets_allowed
        lookup == get_coli_by_zip(req.zip_code)
        coli_index == lookup.value
        \* adjusted_hourly_rate = BASE_HOURLY_RATE * (coli_index / 100), in cents
        adjusted_cents == BASE_HOURLY_RATE * coli_index
        required_cleaners == Ceil(labor_hours, MAX_HOURS_PER_CLEANER * 100)
        \* raw_cost = labor_hours * adjusted_hourly_rate, in 1/100 cent
        raw_num == labor_hours * adjusted_cents
        \* profit_amount = raw_cost * PROFIT_MARGIN_PCT, in 1/10000 cent
        profit_num == raw_num * PROFIT_MARGIN_PCT
        \* final_quote = raw_cost + profit_amount + FLAT_FEE, in 1/10000 cent
        final_num == raw_num * 100 + profit_num + FLAT_FEE * 1000000
    IN  IF lookup.exc # "none" THEN [exc |-> lookup.exc, value |-> NoBreakdown]
        \* labor_hours is inf and math.ceil(inf) raises
        ELSE IF req.carpet_area = Infinity \/ req.hard_floors_area = Infinity
            THEN [exc |-> "OverflowError", value |-> NoBreakdown]
        ELSE IF required_cleaners = 0
            THEN [exc |-> "ZeroDivisionError", value |-> NoBreakdown]
        ELSE [exc |-> "none", value |->
            [labor_hours |-> labor_hours,
             required_cleaners |-> required_cleaners,
             estimated_actual_time |->
                 Round(labor_hours, required_cleaners, tie.time),
             base_hourly_rate |-> BASE_HOURLY_RATE,
             coli_index |-> coli_index,
             adjusted_hourly_rate |-> Round(adjusted_cents, 1, FALSE),
             raw_cost |-> Round(raw_num, 100,
                 ProductUp(labor_hours, coli_index, raw_num, 100, tie.raw)),
             profit_margin_percentage |-> PROFIT_MARGIN_PCT,
             profit_margin_amount |-> Round(profit_num, 10000,
                 ProductUp(labor_hours, coli_index, profit_num, 10000,
                           tie.profit)),
             flat_fee |-> FLAT_FEE,
             final_quote |-> Round(final_num, 10000,
                 SumUp(labor_hours, coli_index, final_num, 10000, tie.final)),
             max_hours_per_cleaner |-> MAX_HOURS_PER_CLEANER,
             pet_multiplier_applied |-> pet_multiplier_applied,
             pet_multiplier_rate |-> PET_MULTIPLIER]]

-----------------------------------------------------------------------------
(* Inputs *)

ZipAlphabet == {"0", "2", "5", "7", "-", "x"}

\* a ZIP+4 extension
PLUS4 == <<"-", "1", "2", "3", "4">>

TableZips == {Key5(COLI_ZIPS[i][1]) : i \in 1..Len(COLI_ZIPS)}

ZipInputs ==
    UNION {[1..n -> ZipAlphabet] : n \in 0..MaxZipLen}
        \cup TableZips
        \cup {z \o PLUS4 : z \in TableZips}
        \cup {DEFAULT_KEY}

\* postal codes of the checked requests: no match at all, an exact match,
\* a three-character prefix match, an exact match in ZIP+4 form, index 120
QuoteZips ==
    {Key5(0), Key5(21209), Key5(20755), Key5(55441) \o PLUS4, Key5(55401)}

Areas == {k * AreaStep : k \in 0..MaxAreaSteps}

Requests ==
    [beds : 0..MaxBeds, bedrooms : 0..MaxBeds,
     full_bathrooms : 0..MaxRooms, half_bathrooms : 0..MaxRooms,
     living_rooms : 0..MaxRooms, kitchens : 0..MaxRooms,
     carpet_area : Areas, hard_floors_area : Areas,
     exterior_features : 0..MaxExtras, extra_spaces : 0..MaxExtras,
     pets_allowed : BOOLEAN, zip_code : QuoteZips]

NoRequest ==
    [beds |-> 0, bedrooms |-> 0, full_bathrooms |-> 0, half_bathrooms |-> 0,
     living_rooms |-> 0, kitchens |-> 0, carpet_area |-> 0,
     hard_floors_area |-> 0, exterior_features |-> 0, extra_spaces |-> 0,
     pets_allowed |-> FALSE, zip_code |-> << >>]

-----------------------------------------------------------------------------
(* The runs: one call of get_coli_by_zip or of calculate_quote *)

NoResponse ==
    [rid |-> 0, status |-> 0, quote |-> 0, breakdown |-> NoBreakdown,
     insert |-> "none", raised |-> "none", steps |-> << >>]

NoSent == [rid |-> 0, breakdown |-> NoBreakdown, exc |-> FALSE, posts |-> << >>]

NoListing == [status |-> 0, limit |-> 0, quotes |-> << >>, query |-> "none"]

\* no pure function is being called on its own
FunctionsIdle ==
    /\ op = "none"
    /\ pc = "idle"
    /\ zip_code = << >>
    /\ zip_5 = << >>
    /\ coli = 0
    /\ request = NoRequest
    /\ breakdown = NoBreakdown

\* the dict is as written, no sequence of calls is recorded and no
\* invocations run side by side
CallsIdle ==
    /\ coli_assigned = << >>
    /\ calls = << >>
    /\ fp = << >>
    /\ running = << >>

\* the service has handled nothing
ServiceIdle ==
    /\ quotes = << >>
    /\ handled = 0
    /\ background_tasks = << >>
    /\ response = NoResponse
    /\ sent = NoSent
    /\ listing = NoListing

Init ==
    /\ pc = "call"
    /\ zip_5 = << >>
    /\ coli = 0
    /\ breakdown = NoBreakdown
    /\ \/ /\ op = "get_coli_by_zip"
          /\ zip_code \in ZipInputs
          /\ request = NoRequest
       \/ /\ op = "calculate_quote"
          /\ request \in Requests
          /\ zip_code = request.zip_code
    /\ CallsIdle
    /\ supabase = "None"
    /\ BREVO_API_KEY = ""
    /\ ServiceIdle

GetColiByZip ==
    /\ op = "get_coli_by_zip"
    /\ pc = "call"
    /\ LET r == get_coli_by_zip(zip_code)
       IN  /\ pc' = IF r.exc = "none" THEN "return" ELSE "raise"
           /\ coli' = r.value
    /\ zip_5' = Normalize(zip_code)
    /\ UNCHANGED <<op, zip_code, request, breakdown>>
    /\ UNCHANGED <<coli_assigned, calls, fp, running, svcvars>>

CalculateQuote ==
    /\ op = "calculate_quote"
    /\ pc = "call"
    /\ \E tie \in Ties :
          LET r == calculate_quote(request, tie)
          IN  /\ pc' = IF r.exc = "none" THEN "return" ELSE "raise"
              /\ breakdown' = r.value
    /\ zip_5' = Normalize(request.zip_code)
    /\ coli' = get_coli_by_zip(request.zip_code).value
    /\ UNCHANGED <<op, zip_code, request>>
    /\ UNCHANGED <<coli_assigned, calls, fp, running, svcvars>>

Next == GetColiByZip \/ CalculateQuote

Spec == Init /\ [][Next]_vars

-----------------------------------------------------------------------------
(* A process that calls the two functions again and again.  COLI_DATA is a  *)
(* module global, so what a call finds in it is what the calls before it    *)
(* left there.  round(x, 2) is a function of the float x: a request whose   *)
(* rounding directions have been seen (fp) is rounded the same way again.   *)

\* number of calls in a run
MaxCalls == 3

\* no match at all, and a three-character prefix match
CallZips == {Key5(0), Key5(20755)}

\* a request whose labor hours lie halfway between two hundredths (0.975),
\* and a request with an exact table match
CallRequests ==
    {[NoRequest EXCEPT !.kitchens = 1, !.carpet_area = 1250,
                       !.zip_code = Key5(0)],
     [NoRequest EXCEPT !.bedrooms = 2, !.full_bathrooms = 1,
                       !.living_rooms = 1, !.kitchens = 1,
                       !.zip_code = Key5(55401)]}

InitCalls ==
    /\ FunctionsIdle
    /\ CallsIdle
    /\ supabase = "None"
    /\ BREVO_API_KEY = ""
    /\ ServiceIdle

CallGetColiByZip ==
    /\ Len(calls) < MaxCalls
    /\ \E zip \in CallZips :
          LET r == get_coli_by_zip(zip)
          IN  calls' = Append(calls, [fn |-> "get_coli_by_zip", arg |-> zip,
                                      exc |-> r.exc, value |-> r.value])
    /\ UNCHANGED <<callvars, coli_assigned, fp, running, svcvars>>

\* a calculate_quote that keeps the index it used as the new default
CallCalculateQuote_RemembersIndex ==
    /\ Len(calls) < MaxCalls
    /\ \E req \in CallRequests, tie \in Ties :
          /\ req \in DOMAIN fp => tie = fp[req]
          /\ fp' = IF req \in DOMAIN fp THEN fp ELSE (req :> tie) @@ fp
          /\ LET r == calculate_quote(req, tie)
             IN  /\ calls' = Append(calls,
                        [fn |-> "calculate_quote", arg |-> req,
                         exc |-> r.exc, value |-> r.value])
                 /\ coli_assigned' =
                        (DEFAULT_KEY :> r.value.coli_index) @@ coli_assigned
    /\ UNCHANGED <<callvars, running, svcvars>>

CallCalculateQuote ==
    /\ Len(calls) < MaxCalls
    /\ \E req \in CallRequests, tie \in Ties :
          /\ req \in DOMAIN fp => tie = fp[req]
          /\ fp' = IF req \in DOMAIN fp THEN fp ELSE (req :> tie) @@ fp
          /\ LET r == calculate_quote(req, tie)
             IN  calls' = Append(calls,
                     [fn |-> "calculate_quote", arg |-> req,
                      exc |-> r.exc, value |-> r.value])
    /\ UNCHANGED <<callvars, coli_assigned, running, svcvars>>

NextCalls == CallGetColiByZip \/ CallCalculateQuote

SpecCalls == InitCalls /\ [][NextCalls]_vars

-----------------------------------------------------------------------------
(* Invocations of calculate_quote that run side by side, one per request,   *)
(* interleaved statement by statement.  Each has its own locals; the only   *)
(* thing they have in common is the global COLI_DATA, which get_coli_by_zip *)
(* reads twice: once for the membership test, once for the value.           *)

\* number of invocations that run side by side
MaxInvocations == 2

\* no rounding direction chosen yet
NoTie ==
    [hours |-> FALSE, time |-> FALSE, raw |-> FALSE, profit |-> FALSE,
     final |-> FALSE]

\* an invocation that has been entered with request req
Entered(req) ==
    [request |-> req, pc |-> "labor_hours", labor_hours |-> 0,
     found |-> FALSE, lookup |-> [exc |-> "none", value |-> 0],
     tie |-> NoTie, result |-> [exc |-> "none", value |-> NoBreakdown]]

\* the statements of calculate_quote after the two calls, on the locals
\* labor_hours and lookup (the value get_coli_by_zip returned)
calculate_quote_rest(req, labor_hours, lookup, tie) ==
    LET pet_multiplier_applied == req.pets_allowed
        coli_index == lookup.value
        adjusted_cents == BASE_HOURLY_RATE * coli_index
        required_cleaners == Ceil(labor_hours, MAX_HOURS_PER_CLEANER * 100)
        raw_num == labor_hours * adjusted_cents
        profit_num == raw_num * PROFIT_MARGIN_PCT
        final_num == raw_num * 100 + profit_num + FLAT_FEE * 1000000
    IN  IF lookup.exc # "none" THEN [exc |-> lookup.exc, value |-> NoBreakdown]
        ELSE IF labor_hours = Infinity
            THEN [exc |-> "OverflowError", value |-> NoBreakdown]
        ELSE IF required_cleaners = 0
            THEN [exc |-> "ZeroDivisionError", value |-> NoBreakdown]
        ELSE [exc |-> "none", value |->
            [labor_hours |-> labor_hours,
             required_cleaners |-> required_cleaners,
             estimated_actual_time |->
                 Round(labor_hours, required_cleaners, tie.time),
             base_hourly_rate |-> BASE_HOURLY_RATE,
             coli_index |-> coli_index,
             adjusted_hourly_rate |-> Round(adjusted_cents, 1, FALSE),
             raw_cost |-> Round(raw_num, 100,
                 ProductUp(labor_hours, coli_index, raw_num, 100, tie.raw)),
             profit_margin_percentage |-> PROFIT_MARGIN_PCT,
             profit_margin_amount |-> Round(profit_num, 10000,
                 ProductUp(labor_hours, coli_index, profit_num, 10000,
                           tie.profit)),
             flat_fee |-> FLAT_FEE,
             final_quote |-> Round(final_num, 10000,
                 SumUp(labor_hours, coli_index, final_num, 10000, tie.final)),
             max_hours_per_cleaner |-> MAX_HOURS_PER_CLEANER,
             pet_multiplier_applied |-> pet_multiplier_applied,
             pet_multiplier_rate |-> PET_MULTIPLIER]]

\* the value looked up kept in one place for all invocations
StoreLookup_Shared(i, r) ==
    [j \in DOMAIN running |-> [running[j] EXCEPT !.lookup = r]]

\* the value looked up goes into the local coli_index of invocation i
StoreLookup(i, r) == [running EXCEPT ![i].lookup = r]

InitConcurrent ==
    /\ FunctionsIdle
    /\ coli_assigned = << >>
    /\ calls = << >>
    /\ fp = << >>
    /\ running \in [1..MaxInvocations -> {Entered(req) : req \in CallRequests}]
    /\ supabase = "None"
    /\ BREVO_API_KEY = ""
    /\ ServiceIdle

\* labor_hours = calculate_labor_hours(request)
LaborHours(i) ==
    /\ running[i].pc = "labor_hours"
    /\ \E up \in BOOLEAN :
          LET req == running[i].request
              inf == req.carpet_area = Infinity
                         \/ req.hard_floors_area = Infinity
          IN  running' =
                  [running EXCEPT
                      ![i].labor_hours =
                          IF inf THEN Infinity
                          ELSE calculate_labor_hours(req, up),
                      ![i].tie = [NoTie EXCEPT !.hours = up],
                      ![i].pc = "in"]
    /\ UNCHANGED <<callvars, coli_assigned, calls, fp, svcvars>>

\* get_coli_by_zip: if zip_5 in COLI_DATA
LookupTest(i) ==
    /\ running[i].pc = "in"
    /\ running' =
           [running EXCEPT
               ![i].found =
                   Normalize(running[i].request.zip_code) \in DOMAIN COLI_NOW,
               ![i].pc = "subscript"]
    /\ UNCHANGED <<callvars, coli_assigned, calls, fp, svcvars>>

\* get_coli_by_zip: the return statement that the test leads to
LookupRead(i) ==
    /\ running[i].pc = "subscript"
    /\ LET z5 == Normalize(running[i].request.zip_code)
           zip_prefix_2 == Slice(z5, 2)
           zip_prefix_3 == Slice(z5, 3)
           r == IF running[i].found THEN Subscript(COLI_NOW, z5)
                ELSE IF zip_prefix_3 \in DOMAIN state_averages
                    THEN Subscript(state_averages, zip_prefix_3)
                ELSE IF zip_prefix_2 \in DOMAIN state_averages
                    THEN Subscript(state_averages, zip_prefix_2)
                ELSE Subscript(COLI_NOW, DEFAULT_KEY)
       IN  \E stored \in {StoreLookup(i, r)} :
               running' = [stored EXCEPT ![i].pc = "rest"]
    /\ UNCHANGED <<callvars, coli_assigned, calls, fp, svcvars>>

\* the statements from required_cleaners to the return
Rest(i) ==
    /\ running[i].pc = "rest"
    /\ \E tie \in Ties :
          /\ tie.hours = running[i].tie.hours
          /\ running' =
                 [running EXCEPT
                     ![i].tie = tie,
                     ![i].result =
                         calculate_quote_rest(running[i].request,
                                              running[i].labor_hours,
                                              running[i].lookup, tie),
                     ![i].pc = "return"]
    /\ UNCHANGED <<callvars, coli_assigned, calls, fp, svcvars>>

NextConcurrent ==
    \E i \in DOMAIN running :
        LaborHours(i) \/ LookupTest(i) \/ LookupRead(i) \/ Rest(i)

SpecConcurrent == InitConcurrent /\ [][NextConcurrent]_vars

-----------------------------------------------------------------------------
(* The service.  Every handler is a coroutine without a suspending await:   *)
(* supabase and requests are called synchronously, so a handler runs to its *)
(* end before the event loop runs anything else.  A background task runs    *)
(* after the response of its request has been sent.                         *)

\* number of POST /api/quote requests in a run
MaxRequests == 2
\* datetime.utcnow() takes the values 0..MaxClock
MaxClock == 1
\* the limit of get_quotes ranges over 1..MaxLimit
MaxLimit == 2

\* a request with a first name and a table match, a request whose name
\* is a single space, with pets and without a match, and a request whose
\* carpet area is inf
SvcRequests ==
    {[full_name |-> <<"A", "n", "a", " ", "L">>, email |-> "ana@example.com",
      address |-> "1 Main St", city |-> "Minneapolis", state |-> "MN",
      zip_code |-> Key5(55401), beds |-> 3, bedrooms |-> 2,
      full_bathrooms |-> 1, half_bathrooms |-> 0, living_rooms |-> 1,
      kitchens |-> 1, carpet_area |-> 0, hard_floors_area |-> 0,
      exterior_features |-> 0, extra_spaces |-> 0, pets_allowed |-> FALSE],
     [full_name |-> <<" ">>, email |-> "bo@example.com",
      address |-> "2 Elm St", city |-> "Nowhere", state |-> "ZZ",
      zip_code |-> Key5(0), beds |-> 0, bedrooms |-> 0,
      full_bathrooms |-> 0, half_bathrooms |-> 0, living_rooms |-> 0,
      kitchens |-> 1, carpet_area |-> 1250, hard_floors_area |-> 0,
      exterior_features |-> 0, extra_spaces |-> 0, pets_allowed |-> TRUE],
     [full_name |-> <<"C", "y">>, email |-> "cy@example.com",
      address |-> "3 Oak St", city |-> "Baltimore", state |-> "MD",
      zip_code |-> Key5(21209), beds |-> 1, bedrooms |-> 1,
      full_bathrooms |-> 1, half_bathrooms |-> 0, living_rooms |-> 0,
      kitchens |-> 1, carpet_area |-> Infinity, hard_floors_area |-> 0,
      exterior_features |-> 0, extra_spaces |-> 0, pets_allowed |-> FALSE]}

Range(f) == {f[i] : i \in DOMAIN f}

(* save_quote_to_db *)

\* the dict with final_quote taken from raw_cost
data_RawAsFinal(req, bd, now) ==
    [full_name |-> req.full_name, email |-> req.email,
     address |-> req.address, city |-> req.city, state |-> req.state,
     zip_code |-> req.zip_code, beds |-> req.beds,
     bedrooms |-> req.bedrooms, full_bathrooms |-> req.full_bathrooms,
     half_bathrooms |-> req.half_bathrooms,
     living_rooms |-> req.living_rooms, kitchens |-> req.kitchens,
     carpet_area |-> req.carpet_area,
     hard_floors_area |-> req.hard_floors_area,
     exterior_features |-> req.exterior_features,
     extra_spaces |-> req.extra_spaces, pets_allowed |-> req.pets_allowed,
     labor_hours |-> bd.labor_hours,
     estimated_actual_time |-> bd.estimated_actual_time,
     required_cleaners |-> bd.required_cleaners,
     base_hourly_rate |-> bd.base_hourly_rate,
     coli_index |-> bd.coli_index,
     adjusted_rate |-> bd.adjusted_hourly_rate,
     raw_cost |-> bd.raw_cost,
     profit_margin_percentage |-> bd.profit_margin_percentage,
     profit_margin_amount |-> bd.profit_margin_amount,
     flat_fee |-> bd.flat_fee,
     final_quote |-> bd.raw_cost,
     max_hours_per_cleaner |-> bd.max_hours_per_cleaner,
     pet_multiplier_applied |-> bd.pet_multiplier_applied,
     pet_multiplier_rate |-> bd.pet_multiplier_rate,
     created_at |-> now]

\* the dict data built by save_quote_to_db
data(req, bd, now) ==
    [full_name |-> req.full_name, email |-> req.email,
     address |-> req.address, city |-> req.city, state |-> req.state,
     zip_code |-> req.zip_code, beds |-> req.beds,
     bedrooms |-> req.bedrooms, full_bathrooms |-> req.full_bathrooms,
     half_bathrooms |-> req.half_bathrooms,
     living_rooms |-> req.living_rooms, kitchens |-> req.kitchens,
     carpet_area |-> req.carpet_area,
     hard_floors_area |-> req.hard_floors_area,
     exterior_features |-> req.exterior_features,
     extra_spaces |-> req.extra_spaces, pets_allowed |-> req.pets_allowed,
     labor_hours |-> bd.labor_hours,
     estimated_actual_time |-> bd.estimated_actual_time,
     required_cleaners |-> bd.required_cleaners,
     base_hourly_rate |-> bd.base_hourly_rate,
     coli_index |-> bd.coli_index,
     adjusted_rate |-> bd.adjusted_hourly_rate,
     raw_cost |-> bd.raw_cost,
     profit_margin_percentage |-> bd.profit_margin_percentage,
     profit_margin_amount |-> bd.profit_margin_amount,
     flat_fee |-> bd.flat_fee,
     final_quote |-> bd.final_quote,
     max_hours_per_cleaner |-> bd.max_hours_per_cleaner,
     pet_multiplier_applied |-> bd.pet_multiplier_applied,
     pet_multiplier_rate |-> bd.pet_multiplier_rate,
     created_at |-> now]

\* what supabase.table("quotes").insert(data).execute() does: the row is
\* stored and comes back in result.data, the row is stored and result.data
\* is empty, or the call raises and nothing is stored
InsertOutcomes == {"created", "empty", "raise"}

\* the table after insert(d): the row gets the next id of the table
Insert(rows, d) == Append(rows, [id |-> Len(rows) + 1] @@ d)

\* the sentinels and ids that save_quote_to_db returns
QuoteId(tag, n) == [tag |-> tag, n |-> n]

\* the insert outside of try / except
save_quote_to_db_NoTry(req, bd, ins, now) ==
    IF supabase = "None"
        THEN [exc |-> FALSE, quote_id |-> QuoteId("db_skip", 0),
              quotes |-> quotes]
    ELSE IF ins = "raise"
        THEN [exc |-> TRUE, quote_id |-> QuoteId("error", 0),
              quotes |-> quotes]
    ELSE LET rows == Insert(quotes, data(req, bd, now))
         IN  [exc |-> FALSE,
              quote_id |-> IF ins = "created"
                               THEN QuoteId("id", rows[Len(rows)].id)
                               ELSE QuoteId("unknown", 0),
              quotes |-> rows]

\* an upsert on the e-mail address in place of the insert
save_quote_to_db_Upsert(req, bd, ins, now) ==
    IF supabase = "None"
        THEN [exc |-> FALSE, quote_id |-> QuoteId("db_skip", 0),
              quotes |-> quotes]
    ELSE IF ins = "raise"
        THEN [exc |-> FALSE, quote_id |-> QuoteId("error", 0),
              quotes |-> quotes]
    ELSE LET kept == SelectSeq(quotes, LAMBDA row : row.email # req.email)
             rows == Insert(kept, data(req, bd, now))
         IN  [exc |-> FALSE,
              quote_id |-> IF ins = "created"
                               THEN QuoteId("id", rows[Len(rows)].id)
                               ELSE QuoteId("unknown", 0),
              quotes |-> rows]

\* exc: an exception leaves the function; quotes: the table afterwards
save_quote_to_db(req, bd, ins, now) ==
    IF supabase = "None"
        THEN [exc |-> FALSE, quote_id |-> QuoteId("db_skip", 0),
              quotes |-> quotes]
    ELSE IF ins = "raise"
        THEN [exc |-> FALSE, quote_id |-> QuoteId("error", 0),
              quotes |-> quotes]
    ELSE LET rows == Insert(quotes, data(req, bd, now))
         IN  [exc |-> FALSE,
              quote_id |-> IF ins = "created"
                               THEN QuoteId("id", rows[Len(rows)].id)
                               ELSE QuoteId("unknown", 0),
              quotes |-> rows]

(* send_quote_email *)

RECURSIVE IntDigits(_)
\* the decimal digits of a natural number
IntDigits(n) ==
    IF n < 10 THEN <<Digit[n + 1]>>
    ELSE Append(IntDigits(n \div 10), Digit[(n % 10) + 1])

\* str(x) of a float x of at most two decimals, x given in hundredths:
\* what the f-string writes for {breakdown.final_quote}
float_str(hundredths) ==
    IntDigits(hundredths \div 100) \o <<".">>
        \o <<Digit[((hundredths \div 10) % 10) + 1]>>
        \o (IF hundredths % 10 = 0 THEN << >>
            ELSE <<Digit[(hundredths % 10) + 1]>>)

RECURSIVE SkipSpaces(_, _)
\* the first position at or after i that holds no space
SkipSpaces(s, i) ==
    IF i > Len(s) \/ s[i] # " " THEN i ELSE SkipSpaces(s, i + 1)

RECURSIVE WordEnd(_, _)
\* the first position at or after i that holds a space
WordEnd(s, i) ==
    IF i > Len(s) \/ s[i] = " " THEN i ELSE WordEnd(s, i + 1)

\* s.split()[0]
FirstWord(s) ==
    LET b == SkipSpaces(s, 1)
    IN  IF b > Len(s) THEN [exc |-> "IndexError", value |-> << >>]
        ELSE [exc |-> "none", value |-> SubSeq(s, b, WordEnd(s, b) - 1)]

\* what requests.post does: status 201, another status, or it raises
PostOutcomes == {"201", "500", "raise"}

\* the body of one try block of send_quote_email.  exc: an exception was
\* raised inside the block; posts: the requests.post calls it made
SendBlock(req, bd, bedrooms_shown, outcome) ==
    LET first_name ==
            IF req.full_name # << >> THEN FirstWord(req.full_name)
            ELSE [exc |-> "none", value |-> <<"t", "h", "e", "r", "e">>]
    IN  IF first_name.exc # "none" THEN [exc |-> TRUE, posts |-> << >>]
        ELSE [exc |-> outcome = "raise",
              posts |-> << [to |-> req.email,
                            first_name |-> first_name.value,
                            price |-> float_str(bd.final_quote),
                            bedrooms |-> bedrooms_shown,
                            outcome |-> outcome] >>]

\* the two blocks without their try / except
send_quote_email_NoTry(req, bd, quote_id, o1, o2) ==
    IF BREVO_API_KEY = "" THEN [exc |-> FALSE, posts |-> << >>]
    ELSE LET first == SendBlock(req, bd, req.bedrooms, o1)
             second == SendBlock(req, bd, Max(req.beds, req.bedrooms), o2)
         IN  IF first.exc THEN [exc |-> TRUE, posts |-> first.posts]
             ELSE [exc |-> second.exc, posts |-> first.posts \o second.posts]

\* the function holds its body twice: after the first try / except comes a
\* second test of the key and a second try / except around a second post
send_quote_email(req, bd, quote_id, o1, o2) ==
    IF BREVO_API_KEY = "" THEN [exc |-> FALSE, posts |-> << >>]
    ELSE LET first == SendBlock(req, bd, req.bedrooms, o1)
             second == SendBlock(req, bd, Max(req.beds, req.bedrooms), o2)
         IN  [exc |-> FALSE, posts |-> first.posts \o second.posts]

(* create_quote *)

\* the task added before the row is saved, with no id to carry
create_quote_ScheduleBeforeSave(req, calc, ins, now) ==
    LET saved == save_quote_to_db(req, calc.value, ins, now)
        rid == handled + 1
        insert == IF supabase = "None" THEN "no client" ELSE ins
    IN  IF calc.exc # "none"
            THEN [response |-> [rid |-> rid, status |-> 500, quote |-> 0,
                                breakdown |-> NoBreakdown,
                                insert |-> "not reached",
                                raised |-> calc.exc,
                                steps |-> <<"calculate", "except">>],
                  quotes |-> quotes,
                  background_tasks |-> background_tasks]
        ELSE [response |-> [rid |-> rid, status |-> 200,
                            quote |-> calc.value.final_quote,
                            breakdown |-> calc.value, insert |-> insert,
                            raised |-> "none",
                            steps |-> <<"calculate", "schedule", "save",
                                        "respond">>],
              quotes |-> saved.quotes,
              background_tasks |->
                  Append(background_tasks,
                         [rid |-> rid, request |-> req,
                          breakdown |-> calc.value,
                          quote_id |-> QuoteId("unknown", 0)])]

\* calc: what calculate_quote(request) did.  response: the HTTP response,
\* and with it what happened in the handler: rid numbers the request,
\* insert tells what the storage did, raised names the exception caught by
\* the handler's except, steps lists the statements run in their order.
\* quotes, background_tasks: the state the handler leaves
create_quote(req, calc, ins, now) ==
    LET saved == save_quote_to_db(req, calc.value, ins, now)
        rid == handled + 1
        insert == IF supabase = "None" THEN "no client" ELSE ins
    IN  IF calc.exc # "none"
            THEN [response |-> [rid |-> rid, status |-> 500, quote |-> 0,
                                breakdown |-> NoBreakdown,
                                insert |-> "not reached",
                                raised |-> calc.exc,
                                steps |-> <<"calculate", "except">>],
                  quotes |-> quotes,
                  background_tasks |-> background_tasks]
        ELSE IF saved.exc
            THEN [response |-> [rid |-> rid, status |-> 500, quote |-> 0,
                                breakdown |-> NoBreakdown, insert |-> insert,
                                raised |-> "Exception",
                                steps |-> <<"calculate", "save", "except">>],
                  quotes |-> saved.quotes,
                  background_tasks |-> background_tasks]
        ELSE [response |-> [rid |-> rid, status |-> 200,
                            quote |-> calc.value.final_quote,
                            breakdown |-> calc.value, insert |-> insert,
                            raised |-> "none",
                            steps |-> <<"calculate", "save", "schedule",
                                        "respond">>],
              quotes |-> saved.quotes,
              background_tasks |->
                  Append(background_tasks,
                         [rid |-> rid, request |-> req,
                          breakdown |-> calc.value,
                          quote_id |-> saved.quote_id])]

(* get_quotes *)

\* the rows in an order in which created_at never decreases
order_desc_Ascending(rows) ==
    {s \in [1..Len(rows) -> Range(rows)] :
        /\ Range(s) = Range(rows)
        /\ \A i \in 1..(Len(rows) - 1) : s[i].created_at <= s[i + 1].created_at}

\* order("created_at", desc=True): the rows in an order in which created_at
\* never increases; rows of equal created_at come in any order
order_desc(rows) ==
    {s \in [1..Len(rows) -> Range(rows)] :
        /\ Range(s) = Range(rows)
        /\ \A i \in 1..(Len(rows) - 1) : s[i].created_at >= s[i + 1].created_at}

\* what the query does: it returns rows, or it raises
QueryOutcomes == {"rows", "raise"}

\* a list, empty or not, where the code raises HTTPException
get_quotes_AlwaysList(limit, outcome, ordered) ==
    IF supabase = "None"
        THEN [status |-> 200, limit |-> limit, quotes |-> << >>,
              query |-> "not reached"]
    ELSE IF outcome = "raise"
        THEN [status |-> 200, limit |-> limit, quotes |-> << >>,
              query |-> outcome]
    ELSE [status |-> 200, limit |-> limit, quotes |-> Slice(ordered, limit),
          query |-> outcome]

\* ordered: the rows as order() delivers them; query: what the query did
get_quotes(limit, outcome, ordered) ==
    IF supabase = "None"
        THEN [status |-> 503, limit |-> limit, quotes |-> << >>,
              query |-> "not reached"]
    ELSE IF outcome = "raise"
        THEN [status |-> 500, limit |-> limit, quotes |-> << >>,
              query |-> outcome]
    ELSE [status |-> 200, limit |-> limit, quotes |-> Slice(ordered, limit),
          query |-> outcome]

(* The handlers *)

InitService ==
    /\ FunctionsIdle
    /\ CallsIdle
    /\ supabase \in {"client", "None"}
    /\ BREVO_API_KEY \in {"", "key"}
    /\ ServiceIdle

\* POST /api/quote
CreateQuote ==
    /\ handled < MaxRequests
    /\ \E req \in SvcRequests :
       \E calc \in {calculate_quote(req, tie) : tie \in Ties} :
       \E ins \in InsertOutcomes, now \in 0..MaxClock :
          LET r == create_quote(req, calc, ins, now)
          IN  /\ response' = r.response
              /\ quotes' = r.quotes
              /\ background_tasks' = r.background_tasks
    /\ handled' = handled + 1
    /\ sent' = NoSent
    /\ listing' = NoListing
    /\ UNCHANGED <<callvars, coli_assigned, calls, fp, running, supabase,
                   BREVO_API_KEY>>

\* a background task runs: any of the tasks added and not yet run
SendQuoteEmail ==
    /\ \E i \in 1..Len(background_tasks), o1 \in PostOutcomes,
          o2 \in PostOutcomes :
          LET task == background_tasks[i]
              r == send_quote_email(task.request, task.breakdown,
                                    task.quote_id, o1, o2)
          IN  /\ sent' = [rid |-> task.rid, breakdown |-> task.breakdown,
                          exc |-> r.exc, posts |-> r.posts]
              /\ background_tasks' =
                     SubSeq(background_tasks, 1, i - 1)
                         \o SubSeq(background_tasks, i + 1,
                                   Len(background_tasks))
    /\ response' = NoResponse
    /\ listing' = NoListing
    /\ UNCHANGED <<callvars, coli_assigned, calls, fp, running, supabase,
                   BREVO_API_KEY, quotes, handled>>

\* GET /api/quotes
GetQuotes ==
    /\ \E limit \in 1..MaxLimit, outcome \in QueryOutcomes,
          ordered \in order_desc(quotes) :
          listing' = get_quotes(limit, outcome, ordered)
    /\ response' = NoResponse
    /\ sent' = NoSent
    /\ UNCHANGED <<callvars, coli_assigned, calls, fp, running, supabase,
                   BREVO_API_KEY, quotes, handled, background_tasks>>

NextService == CreateQuote \/ SendQuoteEmail \/ GetQuotes

SpecService == InitService /\ [][NextService]_vars

-----------------------------------------------------------------------------
(* Properties of calculate_quote *)

Returned == op = "calculate_quote" /\ pc = "return"

Abs(x) == IF x < 0 THEN 0 - x ELSE x

(* The value Python gives to round(x * 0.25, 2), in cents, for the float x   *)
(* nearest to n / 100 (n > 0).  x * 0.25 is exact in binary, so off a half   *)
(* the result is the nearest cent to n / 4; at a half (n % 4 = 2) it follows *)
(* the sign of x - n / 100: with 2^e <= n / 100 < 2^(e + 1) the float is     *)
(* the multiple of 2^(e - 52) nearest to n / 100, which lies below n / 100   *)
(* iff (n * 2^(52 - e)) % 100 < 50.  When n / 100 is itself a float          *)
(* (n % 25 = 0) the half is exact and goes to the even cent.                 *)
PyRoundQuarter(n) ==
    LET q == n \div 4
        e == CHOOSE i \in -7..20 :
                IF i >= 0 THEN 100 * Pow2(i) <= n /\ n < 200 * Pow2(i)
                ELSE 100 <= n * Pow2(0 - i) /\ n * Pow2(0 - i) < 200
        r == ((n % 100) * Pow2Mod100(52 - e)) % 100
    IN  IF n % 4 < 2 THEN q
        ELSE IF n % 4 = 3 THEN q + 1
        ELSE IF n % 25 = 0 THEN (IF q % 2 = 0 THEN q ELSE q + 1)
        ELSE IF r < 50 THEN q ELSE q + 1

\* C1: the breakdown's final_quote is the sum of its 2-decimal raw_cost, its
\* 2-decimal profit_margin_amount and its flat_fee.
C1_FinalIsSumOfRounded ==
    Returned =>
        breakdown.final_quote =
            breakdown.raw_cost + breakdown.profit_margin_amount
                + breakdown.flat_fee * 100

\* C2: the breakdown's profit_margin_amount is its 2-decimal raw_cost times
\* profit_margin_percentage (0.25), rounded to 2 decimals.
C2_MarginFromRoundedRaw ==
    Returned =>
        breakdown.profit_margin_amount = PyRoundQuarter(breakdown.raw_cost)

\* the request with every count and area 0 and no pets
AllZero(req) ==
    /\ req.beds = 0 /\ req.bedrooms = 0
    /\ req.full_bathrooms = 0 /\ req.half_bathrooms = 0
    /\ req.living_rooms = 0 /\ req.kitchens = 0
    /\ req.carpet_area = 0 /\ req.hard_floors_area = 0
    /\ req.extra_spaces = 0 /\ req.exterior_features = 0
    /\ ~req.pets_allowed

C4_CrewIsCeilAndTimeIsShare ==
    Returned =>
        /\ breakdown.labor_hours <= 400 * breakdown.required_cleaners
        /\ breakdown.labor_hours > 400 * (breakdown.required_cleaners - 1)
        /\ 2 * Abs(breakdown.estimated_actual_time * breakdown.required_cleaners
                    - breakdown.labor_hours)
              <= breakdown.required_cleaners

C4_Witness ==
    /\ Returned
    /\ breakdown.required_cleaners = 2
    /\ breakdown.labor_hours % 2 = 1
    /\ breakdown.estimated_actual_time * 2 # breakdown.labor_hours

\* C5: one cleaner's hours never exceed the cap of 4 hours, and no smaller
\* crew would do: (required_cleaners - 1) x 4 < labor_hours.
C5_NoCleanerOverCap ==
    Returned =>
        /\ breakdown.estimated_actual_time <= 400
        /\ (breakdown.required_cleaners - 1) * 400 < breakdown.labor_hours

C5_Witness ==
    /\ Returned
    /\ breakdown.labor_hours > 400
    /\ breakdown.required_cleaners = 2
    /\ breakdown.estimated_actual_time <= 400

-----------------------------------------------------------------------------
(* Properties of get_coli_by_zip *)

LookedUp == op = "get_coli_by_zip" /\ pc = "return"

\* the number of characters of s before its first hyphen
BeforeHyphen(s) ==
    IF \E i \in 1..Len(s) : s[i] = "-"
    THEN (CHOOSE i \in 1..Len(s) :
            s[i] = "-" /\ \A j \in 1..(i - 1) : s[j] # "-") - 1
    ELSE Len(s)

\* C6: when the normalized code is no key of the table the result is the
\* value of its 3-character prefix if tabulated, else of its 2-character
\* prefix if tabulated, else the default 115.
C6_PrefixFallback ==
    (LookedUp /\ zip_5 \notin DOMAIN COLI_DATA) =>
        LET p3 == SubSeq(zip_5, 1, Min(3, Len(zip_5)))
            p2 == SubSeq(zip_5, 1, Min(2, Len(zip_5)))
        IN  coli = IF p3 \in DOMAIN state_averages THEN state_averages[p3]
                   ELSE IF p2 \in DOMAIN state_averages THEN state_averages[p2]
                   ELSE 115

\* 20755 is no key; "207" is tabulated as 118 and "20" as 135
C6_Witness ==
    /\ LookedUp
    /\ zip_code = <<"2", "0", "7", "5", "5">>
    /\ zip_5 \notin DOMAIN COLI_DATA
    /\ coli = 118

\* C7: for every entry (postal code, value) written in COLI_DATA the lookup
\* of that postal code returns that value.
C7_EveryWrittenEntry ==
    (LookedUp /\ zip_code \in DOMAIN COLI_DATA) =>
        \A i \in DOMAIN COLI_ITEMS :
            zip_code = COLI_ITEMS[i][1] => coli = COLI_ITEMS[i][2]

\* C8 as stated: the code matched against the table has exactly 5
\* characters, none of them a hyphen, and a ZIP+4 input resolves as its
\* first five characters do.
C8_NormalizedToFive ==
    LookedUp =>
        /\ Len(zip_5) = 5
        /\ \A i \in 1..Len(zip_5) : zip_5[i] # "-"
        /\ (BeforeHyphen(zip_code) = 5 /\ Len(zip_code) > 5) =>
               coli = get_coli_by_zip(SubSeq(zip_code, 1, 5)).value

\* C8 as amended: the code matched against the table is the part of the
\* input before its first hyphen cut to at most 5 characters, never
\* padded, and a ZIP+4 input resolves as its first five characters do.
C8_NormalizedToAtMostFive ==
    LookedUp =>
        /\ Len(zip_5) = Min(5, BeforeHyphen(zip_code))
        /\ \A i \in 1..Len(zip_5) : zip_5[i] = zip_code[i] /\ zip_5[i] # "-"
        /\ (BeforeHyphen(zip_code) = 5 /\ Len(zip_code) > 5) =>
               coli = get_coli_by_zip(SubSeq(zip_code, 1, 5)).value

\* the ZIP+4 form of 55401, tabulated as 120
C8_Witness ==
    /\ LookedUp
    /\ zip_code = <<"5", "5", "4", "0", "1", "-", "1", "2", "3", "4">>
    /\ zip_5 = <<"5", "5", "4", "0", "1">>
    /\ coli = 120

\* C9: get_coli_by_zip raises nothing and returns a strictly positive index.
C9_AlwaysPositive ==
    op = "get_coli_by_zip" =>
        /\ pc # "raise"
        /\ pc = "return" => coli > 0

\* the empty string resolves to the default
C9_Witness ==
    /\ LookedUp
    /\ zip_code = << >>
    /\ coli = 115


-----------------------------------------------------------------------------
(* More properties of calculate_quote *)

\* the request with the two bedroom-count fields exchanged
SwapBeds(req) == [req EXCEPT !.beds = req.bedrooms, !.bedrooms = req.beds]

C12_RateAndRawFromStored ==
    Returned =>
        LET num == breakdown.labor_hours * breakdown.adjusted_hourly_rate
        IN  /\ breakdown.coli_index = get_coli_by_zip(request.zip_code).value
            /\ breakdown.adjusted_hourly_rate
                   = breakdown.base_hourly_rate * breakdown.coli_index
            /\ IF breakdown.labor_hours % 25 = 0
               THEN breakdown.raw_cost
                        = Round(num, 100, HalfEvenUp(num, 100))
               ELSE 2 * Abs(breakdown.raw_cost * 100 - num) <= 100


\* the fixture: 2 bedrooms, 1 full bathroom, 1 living room, 1 kitchen, no
\* areas, no extras, no pets, postal code 55401 (index 120)
Fixture(req) ==
    /\ req.bedrooms = 2 /\ req.beds <= 2
    /\ req.full_bathrooms = 1 /\ req.half_bathrooms = 0
    /\ req.living_rooms = 1 /\ req.kitchens = 1
    /\ req.carpet_area = 0 /\ req.hard_floors_area = 0
    /\ req.extra_spaces = 0 /\ req.exterior_features = 0
    /\ ~req.pets_allowed
    /\ req.zip_code = <<"5", "5", "4", "0", "1">>

-----------------------------------------------------------------------------
(* Properties of a sequence of calls *)

\* C14: two calls of the same function with the same argument return the
\* same result, whatever calls of calculate_quote and get_coli_by_zip lie
\* between them, and no call leaves COLI_DATA different from what it was
C14_SameInputSameResult ==
    /\ COLI_NOW = COLI_DATA
    /\ \A i \in DOMAIN calls : \A j \in DOMAIN calls :
          (calls[i].fn = calls[j].fn /\ calls[i].arg = calls[j].arg)
              => /\ calls[i].exc = calls[j].exc
                 /\ calls[i].value = calls[j].value

\* calculate_quote was called twice with one request, and between the two
\* calls with another request; the quotes returned differ from each other
C14_Witness ==
    /\ Len(calls) = 3
    /\ calls[1].fn = "calculate_quote"
    /\ calls[2].fn = "calculate_quote"
    /\ calls[3].fn = "calculate_quote"
    /\ calls[3].arg = calls[1].arg
    /\ calls[2].arg # calls[1].arg
    /\ calls[2].value.final_quote # calls[1].value.final_quote
    /\ calls[1].exc = "none"

-----------------------------------------------------------------------------
(* Properties of the service *)

\* create_quote has just answered a request
Answered == response.rid # 0

\* the task added last
LastTask == background_tasks[Len(background_tasks)]

\* C16: when the client was never initialised or the insert raises (the
\* calculation having returned), create_quote still answers 200 with the quote and the breakdown, and
\* save_quote_to_db has returned "db_skip" or "error" instead of raising
C16_AnswersWithoutStorage ==
    (Answered /\ response.insert \in {"no client", "raise"})
        => /\ response.status = 200
           /\ response.breakdown # NoBreakdown
           /\ response.quote = response.breakdown.final_quote
           /\ Len(background_tasks) > 0
           /\ LastTask.rid = response.rid
           /\ LastTask.quote_id =
                  IF response.insert = "no client" THEN QuoteId("db_skip", 0)
                  ELSE QuoteId("error", 0)

\* the insert raised and the request was answered
C16_Witness ==
    /\ Answered
    /\ supabase = "client"
    /\ response.insert = "raise"
    /\ response.status = 200
    /\ response.quote > 0
    /\ LastTask.quote_id.tag = "error"

\* C17: when create_quote answers, the e-mail task of the request is still
\* waiting, so the response is fixed before any delivery is attempted and
\* whatever its outcome; send_quote_email runs after the answer and no
\* exception leaves it
C17_ResponseBeforeEmail ==
    /\ (Answered /\ response.status = 200)
           => /\ sent = NoSent
              /\ \E i \in DOMAIN background_tasks :
                    /\ background_tasks[i].rid = response.rid
                    /\ background_tasks[i].breakdown = response.breakdown
    /\ sent.rid # 0
           => /\ ~sent.exc
              /\ sent.rid <= handled
              /\ \A i \in DOMAIN background_tasks :
                    background_tasks[i].rid # sent.rid

\* a run of the task in which one post raised and one was refused
C17_Witness ==
    /\ sent.rid # 0
    /\ Len(sent.posts) = 2
    /\ sent.posts[1].outcome = "raise"
    /\ sent.posts[2].outcome = "500"

DigitValue(c) == CHOOSE d \in 0..9 : Digit[d + 1] = c

RECURSIVE Number(_)
\* the natural number written by a sequence of digits
Number(ds) ==
    IF ds = << >> THEN 0
    ELSE 10 * Number(SubSeq(ds, 1, Len(ds) - 1)) + DigitValue(ds[Len(ds)])

\* the amount, in hundredths, that a decimal numeral shows
Hundredths(text) ==
    LET dot == CHOOSE i \in DOMAIN text : text[i] = "."
        frac == SubSeq(text, dot + 1, Len(text))
    IN  100 * Number(SubSeq(text, 1, dot - 1))
            + (IF Len(frac) = 1 THEN 10 * Number(frac) ELSE Number(frac))

\* C19: the quote of the response, the final_quote of the stored row and
\* the price written in every e-mail equal the final_quote of the breakdown,
\* and each breakdown field of the stored row equals the breakdown's field
C19_ValuesAreTheBreakdowns ==
    /\ (Answered /\ response.status = 200)
           => /\ response.quote = response.breakdown.final_quote
              /\ LastTask.breakdown = response.breakdown
    /\ (Answered /\ response.insert \in {"created", "empty"})
           => LET row == quotes[Len(quotes)]
                  bd == response.breakdown
              IN  /\ row.final_quote = bd.final_quote
                  /\ row.labor_hours = bd.labor_hours
                  /\ row.estimated_actual_time = bd.estimated_actual_time
                  /\ row.required_cleaners = bd.required_cleaners
                  /\ row.base_hourly_rate = bd.base_hourly_rate
                  /\ row.coli_index = bd.coli_index
                  /\ row.adjusted_rate = bd.adjusted_hourly_rate
                  /\ row.raw_cost = bd.raw_cost
                  /\ row.profit_margin_percentage = bd.profit_margin_percentage
                  /\ row.profit_margin_amount = bd.profit_margin_amount
                  /\ row.flat_fee = bd.flat_fee
                  /\ row.max_hours_per_cleaner = bd.max_hours_per_cleaner
                  /\ row.pet_multiplier_applied = bd.pet_multiplier_applied
                  /\ row.pet_multiplier_rate = bd.pet_multiplier_rate
    /\ sent.rid # 0
           => \A k \in DOMAIN sent.posts :
                 Hundredths(sent.posts[k].price) = sent.breakdown.final_quote

\* a request was answered and its row stored
C19_Witness ==
    /\ Answered
    /\ response.status = 200
    /\ response.insert = "created"
    /\ response.quote > 0
    /\ quotes[Len(quotes)].final_quote = response.quote
    /\ quotes[Len(quotes)].raw_cost # response.quote

\* C20: get_quotes(limit) returns limit rows, or all when there are fewer,
\* in an order in which created_at never increases, and no row it leaves
\* out has a later created_at than a row it returns
C20_NewestFirstAtMostLimit ==
    listing.status = 200
        => LET got == listing.quotes
           IN  /\ Len(got) = Min(listing.limit, Len(quotes))
               /\ Range(got) \subseteq Range(quotes)
               /\ Cardinality(Range(got)) = Len(got)
               /\ \A i \in 1..(Len(got) - 1) :
                     got[i].created_at >= got[i + 1].created_at
               /\ \A row \in Range(quotes) \ Range(got) :
                     \A g \in Range(got) : row.created_at <= g.created_at

\* two rows, the second with the later created_at, and a limit of one
C20_Witness ==
    /\ listing.status = 200
    /\ listing.limit = 1
    /\ Len(quotes) = 2
    /\ quotes[2].created_at > quotes[1].created_at
    /\ listing.quotes = <<quotes[2]>>

\* C22: one run of send_quote_email makes at most one post to the mail API,
\* and exactly one when an API key is set
C22_OnePostPerRun ==
    sent.rid # 0
        => /\ Len(sent.posts) <= 1
           /\ BREVO_API_KEY # "" => Len(sent.posts) = 1

\* the id that save_quote_to_db returned to the handler that just answered
ReturnedId ==
    CASE response.insert = "no client" -> QuoteId("db_skip", 0)
      [] response.insert = "raise" -> QuoteId("error", 0)
      [] response.insert = "empty" -> QuoteId("unknown", 0)
      [] response.insert = "created" -> QuoteId("id", quotes[Len(quotes)].id)

C24_FixedStatusCodes ==
    /\ listing.status # 0
           => /\ supabase = "None" => listing.status = 503
              /\ (supabase # "None" /\ listing.query = "raise")
                     => listing.status = 500
              /\ listing.status # 200 => listing.quotes = << >>
              /\ listing.status = 200 => listing.query = "rows"
    /\ Answered
           => /\ response.raised # "none"
                     => /\ response.status = 500
                        /\ response.quote = 0
                        /\ response.breakdown = NoBreakdown
              /\ response.raised = "none" => response.status = 200

\* the query raised although a row is stored
C24_Witness ==
    /\ listing.status = 500
    /\ listing.query = "raise"
    /\ supabase = "client"
    /\ Len(quotes) >= 1

-----------------------------------------------------------------------------
(* Properties of invocations that run side by side *)

\* C21: whatever the interleaving, an invocation that has returned holds the
\* result that calculate_quote gives for its request when run alone, and
\* COLI_DATA is as it was
C21_AsIfAlone ==
    /\ COLI_NOW = COLI_DATA
    /\ \A i \in DOMAIN running :
          running[i].pc = "return"
              => running[i].result =
                     calculate_quote(running[i].request, running[i].tie)

\* two invocations with different requests: the second has looked up its
\* index after the first did and returned before the first went on
C21_Witness ==
    /\ Len(running) >= 2
    /\ running[1].request # running[2].request
    /\ running[1].pc = "rest"
    /\ running[2].pc = "return"
    /\ running[2].result.exc = "none"
    /\ running[2].result.value.coli_index # running[1].lookup.value

=============================================================================
